---- MODULE Spec2Model ----
(***************************************************************************)
(* Model of osovlanski/tic_tac_toe: the GameState rule engine              *)
(* (src/game_state.py), the Redis snapshot store and pub/sub bus           *)
(* (src/redis_sync.py) and the two-instance WebSocket coordinator          *)
(* (src/websocket_server.py).                                              *)
(*                                                                         *)
(* Python values are kept apart from their wire form: the enum members     *)
(* Player.X / GameStatus.WAITING are the strings "Player.X" /              *)
(* "GameStatus.WAITING", their .value is "X" / "waiting", None is "None".  *)
(* A dict is a sequence of key/value records in insertion order.           *)
(***************************************************************************)
EXTENDS Integers, Sequences, FiniteSets, TLC

VARIABLES game_state, store, clients, bus, listener, connected, closed, handled,
          outbox, last, force_reset, fanout, effects

vars ==
    <<game_state, store, clients, bus, listener, connected, closed, handled,
      outbox, last, force_reset, fanout, effects>>

(***************************************************************************)
(* Program constants and input sets                                        *)
(***************************************************************************)
board_size == 3

Idx == 0 .. (board_size - 1)

None == "None"

PlayerX == "Player.X"

PlayerO == "Player.O"

WAITING == "GameStatus.WAITING"

IN_PROGRESS == "GameStatus.IN_PROGRESS"

FINISHED == "GameStatus.FINISHED"

\* Player.X.value / Player.O.value
PlayerValue(p) == IF p = PlayerX THEN "X" ELSE "O"

\* Player("X") / Player("O")
PlayerOf(v) == IF v = "X" THEN PlayerX ELSE PlayerO

\* GameStatus.<member>.value
StatusValue(s) ==
    IF s = WAITING THEN "waiting"
    ELSE IF s = IN_PROGRESS THEN "in_progress" ELSE "finished"

\* GameStatus("<value>")
StatusOf(v) ==
    IF v = "waiting" THEN WAITING
    ELSE IF v = "in_progress" THEN IN_PROGRESS ELSE FINISHED

(***************************************************************************)
(* dict helpers (insertion-ordered, as Python's dict)                      *)
(***************************************************************************)
DictHas(d, k) == \E i \in 1 .. Len(d) : d[i].id = k

DictGet(d, k) == d[CHOOSE i \in 1 .. Len(d) : d[i].id = k].val

DictSet(d, k, v) ==
    IF DictHas(d, k)
    THEN [i \in 1 .. Len(d) |-> IF d[i].id = k THEN [id |-> k, val |-> v] ELSE d[i]]
    ELSE Append(d, [id |-> k, val |-> v])

DictDel(d, k) == SelectSeq(d, LAMBDA e : e.id # k)

DictKeys(d) == {d[i].id : i \in 1 .. Len(d)}

(***************************************************************************)
(* GameState (src/game_state.py)                                           *)
(***************************************************************************)
EmptyBoard == [r \in Idx |-> [c \in Idx |-> ""]]

\* GameState.__init__
NewGameState ==
    [board |-> EmptyBoard,
     current_turn |-> PlayerX,
     status |-> WAITING,
     winner |-> None,
     players |-> <<>>,
     player_count |-> 0]

\* add_player without the "already joined" lookup of lines 32-34
add_player_no_lookup(g, player_id) ==
    IF g.player_count >= 2
    THEN [g |-> g, ret |-> None]
    ELSE LET assigned_player == IF g.player_count = 0 THEN PlayerX ELSE PlayerO
             g1 == [g EXCEPT !.players = DictSet(@, player_id, assigned_player),
                             !.player_count = @ + 1]
             g2 == IF g1.player_count = 2
                   THEN [g1 EXCEPT !.status = IN_PROGRESS]
                   ELSE g1
         IN [g |-> g2, ret |-> assigned_player]

\* add_player starting play as soon as one participant is in (line 48 with >= 1)
add_player_starts_early(g, player_id) ==
    IF DictHas(g.players, player_id)
    THEN [g |-> g, ret |-> DictGet(g.players, player_id)]
    ELSE IF g.player_count >= 2
    THEN [g |-> g, ret |-> None]
    ELSE LET assigned_player == IF g.player_count = 0 THEN PlayerX ELSE PlayerO
             g1 == [g EXCEPT !.players = DictSet(@, player_id, assigned_player),
                             !.player_count = @ + 1]
             g2 == IF g1.player_count >= 1
                   THEN [g1 EXCEPT !.status = IN_PROGRESS]
                   ELSE g1
         IN [g |-> g2, ret |-> assigned_player]

\* GameState.add_player: the object afterwards and the returned symbol
add_player(g, player_id) ==
    IF DictHas(g.players, player_id)
    THEN [g |-> g, ret |-> DictGet(g.players, player_id)]
    ELSE IF g.player_count >= 2
    THEN [g |-> g, ret |-> None]
    ELSE LET assigned_player == IF g.player_count = 0 THEN PlayerX ELSE PlayerO
             g1 == [g EXCEPT !.players = DictSet(@, player_id, assigned_player),
                             !.player_count = @ + 1]
             g2 == IF g1.player_count = 2
                   THEN [g1 EXCEPT !.status = IN_PROGRESS]
                   ELSE g1
         IN [g |-> g2, ret |-> assigned_player]

\* remove_player without the fall back to WAITING of lines 58-59
remove_player_keeps_status(g, player_id) ==
    IF DictHas(g.players, player_id)
    THEN [g EXCEPT !.players = DictDel(@, player_id), !.player_count = @ - 1]
    ELSE g

\* GameState.remove_player
remove_player(g, player_id) ==
    IF DictHas(g.players, player_id)
    THEN LET g1 == [g EXCEPT !.players = DictDel(@, player_id),
                             !.player_count = @ - 1]
         IN IF g1.player_count < 2 THEN [g1 EXCEPT !.status = WAITING] ELSE g1
    ELSE g

\* GameState._check_win
_check_win(board) ==
    \/ \E r \in Idx :
          board[r][0] = board[r][1] /\ board[r][1] = board[r][2] /\ board[r][2] # ""
    \/ \E c \in Idx :
          board[0][c] = board[1][c] /\ board[1][c] = board[2][c] /\ board[2][c] # ""
    \/ board[0][0] = board[1][1] /\ board[1][1] = board[2][2] /\ board[2][2] # ""
    \/ board[0][2] = board[1][1] /\ board[1][1] = board[2][0] /\ board[2][0] # ""

\* _is_board_full answering after the first row (return True inside the outer loop)
_is_board_full_first_row(board) == \A c \in Idx : board[0][c] # ""

\* GameState._is_board_full
_is_board_full(board) == \A r \in Idx : \A c \in Idx : board[r][c] # ""

\* make_move testing the full board before the win (lines 93 and 96 swapped)
make_move_full_first(g, player_id, row, col) ==
    IF g.status # IN_PROGRESS
    THEN [g |-> g, success |-> FALSE, message |-> "Game is not in progress"]
    ELSE IF ~DictHas(g.players, player_id)
    THEN [g |-> g, success |-> FALSE, message |-> "Player not in game"]
    ELSE LET player == DictGet(g.players, player_id) IN
    IF player # g.current_turn
    THEN [g |-> g, success |-> FALSE, message |-> "Not your turn"]
    ELSE IF ~(0 <= row /\ row <= 2 /\ 0 <= col /\ col <= 2)
    THEN [g |-> g, success |-> FALSE, message |-> "Invalid coordinates"]
    ELSE IF g.board[row][col] # ""
    THEN [g |-> g, success |-> FALSE, message |-> "Cell is already occupied"]
    ELSE LET b == [g.board EXCEPT ![row][col] = PlayerValue(player)]
             g1 == [g EXCEPT !.board = b]
             g2 == IF \A r \in Idx : \A c \in Idx : b[r][c] # ""
                   THEN [g1 EXCEPT !.status = FINISHED, !.winner = None]
                   ELSE IF _check_win(b)
                   THEN [g1 EXCEPT !.winner = player, !.status = FINISHED]
                   ELSE [g1 EXCEPT !.current_turn =
                                      IF player = PlayerX THEN PlayerO ELSE PlayerX]
         IN [g |-> g2, success |-> TRUE, message |-> "Move successful"]

\* GameState.make_move: the object afterwards and the (success, message) pair
make_move(g, player_id, row, col) ==
    IF g.status # IN_PROGRESS
    THEN [g |-> g, success |-> FALSE, message |-> "Game is not in progress"]
    ELSE IF ~DictHas(g.players, player_id)
    THEN [g |-> g, success |-> FALSE, message |-> "Player not in game"]
    ELSE LET player == DictGet(g.players, player_id) IN
    IF player # g.current_turn
    THEN [g |-> g, success |-> FALSE, message |-> "Not your turn"]
    ELSE IF ~(0 <= row /\ row <= 2 /\ 0 <= col /\ col <= 2)
    THEN [g |-> g, success |-> FALSE, message |-> "Invalid coordinates"]
    ELSE IF g.board[row][col] # ""
    THEN [g |-> g, success |-> FALSE, message |-> "Cell is already occupied"]
    ELSE LET b == [g.board EXCEPT ![row][col] = PlayerValue(player)]
             g1 == [g EXCEPT !.board = b]
             g2 == IF _check_win(b)
                   THEN [g1 EXCEPT !.winner = player, !.status = FINISHED]
                   ELSE IF _is_board_full(b)
                   THEN [g1 EXCEPT !.status = FINISHED, !.winner = None]
                   ELSE [g1 EXCEPT !.current_turn =
                                      IF player = PlayerX THEN PlayerO ELSE PlayerX]
         IN [g |-> g2, success |-> TRUE, message |-> "Move successful"]

\* get_state_dict writing no winner (line 143 left out)
get_state_dict_no_winner(g) ==
    [board |-> g.board,
     current_turn |-> IF g.current_turn # None THEN PlayerValue(g.current_turn) ELSE None,
     status |-> StatusValue(g.status),
     winner |-> None,
     player_count |-> g.player_count,
     players |-> [i \in 1 .. Len(g.players) |->
                     [id |-> g.players[i].id, val |-> PlayerValue(g.players[i].val)]]]

\* GameState.get_state_dict (the dict that json.dumps writes out)
get_state_dict(g) ==
    [board |-> g.board,
     current_turn |-> IF g.current_turn # None THEN PlayerValue(g.current_turn) ELSE None,
     status |-> StatusValue(g.status),
     winner |-> IF g.winner # None THEN PlayerValue(g.winner) ELSE None,
     player_count |-> g.player_count,
     players |-> [i \in 1 .. Len(g.players) |->
                     [id |-> g.players[i].id, val |-> PlayerValue(g.players[i].val)]]]

\* GameState.reset
reset(g) == NewGameState

\* load_state without "self.player_count = 0" (line 173)
load_state_clear_keeps_count(g, saved_state) ==
    [g EXCEPT !.board = saved_state.board, !.players = <<>>]

\* GameState.load_state, lines 169-173: board, players.clear(), player_count = 0
load_state_clear(g, saved_state) ==
    [g EXCEPT !.board = saved_state.board, !.players = <<>>, !.player_count = 0]

RECURSIVE load_players_loop(_, _, _)
load_players_loop(g, items, i) ==
    IF i > Len(items) THEN g
    ELSE load_players_loop(
            [g EXCEPT !.players = DictSet(@, items[i].id, PlayerOf(items[i].val)),
                      !.player_count = @ + 1],
            items, i + 1)

\* GameState.load_state, lines 176-179: the loop over saved_state['players']
load_state_players(g, saved_state) == load_players_loop(g, saved_state.players, 1)

\* GameState.load_state, lines 182-192: status, current_turn, winner
load_state_rest(g, saved_state) ==
    [g EXCEPT !.status = StatusOf(saved_state.status),
              !.current_turn = IF saved_state.current_turn # None
                               THEN PlayerOf(saved_state.current_turn)
                               ELSE PlayerX,
              !.winner = IF saved_state.winner # None
                         THEN PlayerOf(saved_state.winner)
                         ELSE None]

\* GameState.load_state run without interruption
load_state(g, saved_state) ==
    load_state_rest(load_state_players(load_state_clear(g, saved_state), saved_state),
                    saved_state)

(***************************************************************************)
(* Inputs.  Player ids are uuid4 strings in the program                    *)
(* (websocket_server.py:66); here they are the numbers 1 .. NumPlayerIds.  *)
(***************************************************************************)
Servers == {"A", "B"}

NumPlayerIds == 3

PlayerIds == 1 .. NumPlayerIds

\* (row, col) arguments outside the grid, on each side of each coordinate
OutOfGrid == {<<-1, 0>>, <<0, 3>>, <<3, 1>>, <<1, -1>>}

\* every cell of the grid
AllCells == {<<r, c>> : r \in Idx, c \in Idx}

\* the cells SpecGame's callers aim at: rows 0 and 1
GameCells == {<<r, c>> \in AllCells : r <= 1}

G == game_state["A"]

InitCommon ==
    /\ store = <<get_state_dict(NewGameState)>>
    /\ clients = [s \in Servers |-> <<>>]
    /\ bus = [s \in Servers |-> <<>>]
    /\ listener = [s \in Servers |-> [pc |-> "idle"]]
    /\ connected = {}
    /\ closed = {}
    /\ handled = 0
    /\ outbox = <<>>
    /\ last = [op |-> "init"]
    /\ fanout = <<>>
    /\ effects = <<>>

(***************************************************************************)
(* SpecGame: one GameState object driven directly through its methods, in  *)
(* any order and by any caller.                                            *)
(* SpecPlay: the same object with two callers and no remove_player, so     *)
(* that whole games on the full grid (wins on the ninth move, draws) fit.  *)
(***************************************************************************)
InitGame ==
    /\ game_state = [s \in Servers |-> NewGameState]
    /\ force_reset = [s \in Servers |-> FALSE]
    /\ InitCommon

GFrame ==
    UNCHANGED <<store, clients, bus, listener, connected, closed, handled, outbox,
                force_reset, fanout, effects>>

GAddPlayer(p) ==
    LET r == add_player(G, p) IN
    /\ game_state' = [game_state EXCEPT !["A"] = r.g]
    /\ last' = [op |-> "add_player", player_id |-> p, ret |-> r.ret]
    /\ GFrame

GRemovePlayer(p) ==
    /\ game_state' = [game_state EXCEPT !["A"] = remove_player(G, p)]
    /\ last' = [op |-> "remove_player", player_id |-> p]
    /\ GFrame

GMakeMove(p, row, col) ==
    LET r == make_move(G, p, row, col) IN
    /\ game_state' = [game_state EXCEPT !["A"] = r.g]
    /\ last' = IF r.success
               THEN [op |-> "make_move", player_id |-> p, row |-> row, col |-> col,
                     success |-> TRUE, message |-> r.message]
               ELSE [op |-> "make_move", success |-> FALSE, message |-> r.message]
    /\ GFrame

GReset ==
    /\ game_state' = [game_state EXCEPT !["A"] = reset(G)]
    /\ last' = [op |-> "reset"]
    /\ GFrame

\* restore(snapshot()): load_state(get_state_dict()) on the same object
GRestore ==
    /\ game_state' = [game_state EXCEPT !["A"] = load_state(G, get_state_dict(G))]
    /\ last' = [op |-> "load_state"]
    /\ GFrame

NextGame ==
    \/ \E p \in PlayerIds : GAddPlayer(p)
    \/ \E p \in PlayerIds : GRemovePlayer(p)
    \/ \E p \in PlayerIds : \E m \in GameCells \cup OutOfGrid : GMakeMove(p, m[1], m[2])
    \/ GReset
    \/ GRestore

SpecGame == InitGame /\ [][NextGame]_vars

PlayIds == {1, 2}

NextPlay ==
    \/ \E p \in PlayIds : GAddPlayer(p)
    \/ \E p \in PlayIds : \E m \in AllCells \cup OutOfGrid : GMakeMove(p, m[1], m[2])
    \/ GReset
    \/ GRestore

SpecPlay == InitGame /\ [][NextPlay]_vars

(***************************************************************************)
(* Spec: two server instances A and B (websocket_server.py) sharing the    *)
(* Redis key game_state:default and the pub/sub channels (redis_sync.py).  *)
(*                                                                         *)
(* Each instance has two threads.  The asyncio event loop runs the client  *)
(* handlers; a handler is one action.  The Redis listener is a             *)
(* threading.Thread (redis_sync.py:51) that calls the handle_*_sync        *)
(* methods itself, so its load_state runs concurrently with the event      *)
(* loop and without a lock: it takes two steps here (lines 169-173, then   *)
(* 176-192 of game_state.py) and handlers may run in between.              *)
(* asyncio.create_task, called from the listener thread at the end of a    *)
(* sync handler, finds no running loop there and raises RuntimeError,      *)
(* which redis_sync.py:81 catches and logs: the sync handlers send nothing.*)
(* In Spec both instances are started without --force-reset on an empty    *)
(* Redis.                                                                  *)
(* Nothing publishes on the GAME_SYNC channel, so handle_game_sync never   *)
(* runs.                                                                   *)
(***************************************************************************)
\* longest backlog of undelivered messages per listener
MaxBus == 2

\* number of client messages (join, move, reset) the two instances handle
MaxMessages == 3

\* (row, col) arguments sent by clients in Spec
SpecMoves == {<<0, 0>>, <<1, 1>>, <<0, 3>>}

\* the connections of Spec, named by the player id register_client gives them,
\* and the instance each one connects to; the ids being fresh uuids, the
\* connections of one instance arrive in the order of their names
SpecIds == {1, 2, 3}

ServerOf(c) == IF c = 2 THEN "B" ELSE "A"

InitSpec ==
    /\ game_state = [s \in Servers |-> NewGameState]
    /\ force_reset = [s \in Servers |-> FALSE]
    /\ InitCommon

\* the Redis key game_state:default is absent (<<>>) or holds one dict
\* RedisSyncManager.get_game_state: None when the key is absent
get_game_state == store

IsNone(saved_state) == saved_state = <<>>

\* RedisSyncManager.set_game_state
set_game_state(state) == <<state>>

\* RedisSyncManager.publish_message: Redis hands the message to every
\* subscriber, the publisher's own listener included
publish_message(b, message) == [t \in Servers |-> Append(b[t], message)]

BusHasRoom == \A t \in Servers : Len(bus[t]) < MaxBus

\* TicTacToeServer.send_game_update / broadcast_game_state message to one client
UpdateTo(c) == [to |-> c, type |-> "update"]

\* TicTacToeServer.send_error
ErrorTo(c, error_message) == [to |-> c, type |-> "error", message |-> error_message]

\* TicTacToeServer.broadcast_game_state: the update message, once per
\* connection of cl, in dict order
broadcast_game_state(cl) == [i \in 1 .. Len(cl) |-> UpdateTo(cl[i])]

SeqHas(q, x) == \E i \in 1 .. Len(q) : q[i] = x

\* What a handler of instance s works on: its GameState, the Redis key, the
\* bus, its clients dict, the closed sockets, the messages it has sent and
\* the calls to Redis and to the sockets that have returned, in program order
Work(s) ==
    [g |-> game_state[s], store |-> store, bus |-> bus, clients |-> clients[s],
     closed |-> closed, outbox |-> <<>>, effects |-> <<>>]

\* the websocket.send calls of a fan-out to the connections cl
sends(cl) == [i \in 1 .. Len(cl) |-> "send"]

RECURSIVE broadcast_message(_, _)
RECURSIVE unregister_disconnected(_, _, _)

\* unregister_client without its test "if websocket in self.clients" (line 77)
unregister_client_no_test(s, w, c) ==
    LET g == remove_player(w.g, c)
    IN broadcast_message(s,
           [w EXCEPT !.clients = SelectSeq(@, LAMBDA x : x # c),
                     !.g = g,
                     !.store = set_game_state(get_state_dict(g)),
                     !.bus = publish_message(@,
                                [channel |-> "PLAYER_LEAVE", server_id |-> s,
                                 player_id |-> c]),
                     !.effects = @ \o <<"set_game_state", "publish_message">>])

\* TicTacToeServer.unregister_client followed by its broadcast_game_state
unregister_client(s, w, c) ==
    IF ~SeqHas(w.clients, c)
    THEN w
    ELSE LET g == remove_player(w.g, c)
         IN broadcast_message(s,
                [w EXCEPT !.clients = SelectSeq(@, LAMBDA x : x # c),
                          !.g = g,
                          !.store = set_game_state(get_state_dict(g)),
                          !.bus = publish_message(@,
                                     [channel |-> "PLAYER_LEAVE", server_id |-> s,
                                      player_id |-> c]),
                          !.effects = @ \o <<"set_game_state", "publish_message">>])

\* TicTacToeServer.broadcast_message, lines 248-249: the clean-up loop
unregister_disconnected(s, w, disconnected_clients) ==
    IF disconnected_clients = <<>>
    THEN w
    ELSE unregister_disconnected(s,
             unregister_client(s, w, Head(disconnected_clients)),
             Tail(disconnected_clients))

\* broadcast_message giving up at the first failed send: the connections
\* after it in the dict get nothing
broadcast_message_stops_at_failure(s, w) ==
    IF w.clients = <<>>
    THEN w
    ELSE LET disconnected_clients == SelectSeq(w.clients, LAMBDA x : x \in w.closed)
             sent == IF disconnected_clients = <<>>
                     THEN w.clients
                     ELSE SubSeq(w.clients, 1,
                                 (CHOOSE i \in 1 .. Len(w.clients) :
                                     w.clients[i] = Head(disconnected_clients)) - 1)
         IN unregister_disconnected(s,
                [w EXCEPT !.outbox = @ \o broadcast_game_state(sent),
                          !.effects = @ \o sends(sent)],
                disconnected_clients)

\* TicTacToeServer.broadcast_game_state / broadcast_message: send to every
\* connection in dict order; a send on a closed socket raises ConnectionClosed
\* and the connection is unregistered after the loop
broadcast_message(s, w) ==
    IF w.clients = <<>>
    THEN w
    ELSE LET sent == SelectSeq(w.clients, LAMBDA x : x \notin w.closed)
             disconnected_clients == SelectSeq(w.clients, LAMBDA x : x \in w.closed)
         IN unregister_disconnected(s,
                [w EXCEPT !.outbox = @ \o broadcast_game_state(sent),
                          !.effects = @ \o sends(sent)],
                disconnected_clients)

\* the handler's effects become the next state; the bus stays within MaxBus
Commit(s, w) ==
    /\ \A t \in Servers : Len(w.bus[t]) <= MaxBus
    /\ game_state' = [game_state EXCEPT ![s] = w.g]
    /\ store' = w.store
    /\ bus' = w.bus
    /\ clients' = [clients EXCEPT ![s] = w.clients]
    /\ closed' = w.closed
    /\ outbox' = w.outbox
    /\ effects' = w.effects

\* a connection whose socket is open and whose client sends a message
Requester(s, c) == SeqHas(clients[s], c) /\ c \notin closed

\* TicTacToeServer.client_handler / register_client
Connect(s, c) ==
    /\ s = ServerOf(c)
    /\ c \notin connected
    /\ \A d \in SpecIds : (ServerOf(d) = s /\ d < c) => d \in connected
    /\ connected' = connected \cup {c}
    /\ clients' = [clients EXCEPT ![s] = Append(@, c)]
    /\ outbox' = <<UpdateTo(c)>>
    /\ effects' = <<"send">>
    /\ last' = [op |-> "register_client", server |-> s, player_id |-> c]
    /\ UNCHANGED <<game_state, store, bus, listener, handled, closed, force_reset, fanout>>

\* the socket of a registered connection closes; client_handler has not yet
\* reached its finally clause
Close(s, c) ==
    /\ Requester(s, c)
    /\ closed' = closed \cup {c}
    /\ outbox' = <<>>
    /\ effects' = <<>>
    /\ last' = [op |-> "close", server |-> s, player_id |-> c]
    /\ UNCHANGED <<game_state, store, clients, bus, listener, connected, handled,
                   force_reset, fanout>>

\* handle_join without the reload of lines 123-125
handle_join_no_reload(s, c) ==
    /\ LET saved_state == get_game_state
           g0 == game_state[s]
           r == add_player(g0, c)
       IN IF r.ret = None
          THEN /\ Commit(s, [Work(s) EXCEPT
                               !.g = r.g,
                               !.outbox = <<ErrorTo(c, "Game is full")>>,
                               !.effects = <<"send">>])
               /\ last' = [op |-> "handle_join", server |-> s, player_id |-> c,
                           ret |-> None]
          ELSE /\ Commit(s, broadcast_message(s,
                       [Work(s) EXCEPT
                          !.g = r.g,
                          !.store = set_game_state(get_state_dict(r.g)),
                          !.bus = publish_message(@,
                                     [channel |-> "PLAYER_JOIN", server_id |-> s,
                                      player_id |-> c,
                                      player_symbol |-> PlayerValue(r.ret),
                                      game_state |-> get_state_dict(r.g)]),
                          !.outbox = <<[to |-> c, type |-> "joined",
                                        playerId |-> PlayerValue(r.ret)]>>,
                          !.effects = <<"set_game_state", "publish_message", "send">>]))
               /\ last' = [op |-> "handle_join", server |-> s, player_id |-> c,
                           ret |-> r.ret]
    /\ UNCHANGED <<listener, connected, force_reset, fanout>>

\* TicTacToeServer.handle_join
handle_join(s, c) ==
    /\ LET saved_state == get_game_state
           g0 == IF ~IsNone(saved_state)
                 THEN load_state(game_state[s], saved_state[1])
                 ELSE game_state[s]
           r == add_player(g0, c)
       IN IF r.ret = None
          THEN /\ Commit(s, [Work(s) EXCEPT
                               !.g = r.g,
                               !.outbox = <<ErrorTo(c, "Game is full")>>,
                               !.effects = <<"send">>])
               /\ last' = [op |-> "handle_join", server |-> s, player_id |-> c,
                           ret |-> None]
          ELSE /\ Commit(s, broadcast_message(s,
                       [Work(s) EXCEPT
                          !.g = r.g,
                          !.store = set_game_state(get_state_dict(r.g)),
                          !.bus = publish_message(@,
                                     [channel |-> "PLAYER_JOIN", server_id |-> s,
                                      player_id |-> c,
                                      player_symbol |-> PlayerValue(r.ret),
                                      game_state |-> get_state_dict(r.g)]),
                          !.outbox = <<[to |-> c, type |-> "joined",
                                        playerId |-> PlayerValue(r.ret)]>>,
                          !.effects = <<"set_game_state", "publish_message", "send">>]))
               /\ last' = [op |-> "handle_join", server |-> s, player_id |-> c,
                           ret |-> r.ret]
    /\ UNCHANGED <<listener, connected, force_reset, fanout>>

\* handle_move with save_game_state outside the "if success" (line 166 moved up)
handle_move_saves_always(s, c, row, col) ==
    /\ LET r == make_move(game_state[s], c, row, col)
       IN IF r.success
          THEN /\ Commit(s, broadcast_message(s,
                       [Work(s) EXCEPT
                          !.g = r.g,
                          !.store = set_game_state(get_state_dict(r.g)),
                          !.bus = publish_message(@,
                                     [channel |-> "GAME_MOVE", server_id |-> s,
                                      player_id |-> c, row |-> row, col |-> col,
                                      game_state |-> get_state_dict(r.g)]),
                          !.effects = <<"set_game_state", "publish_message">>]))
               /\ last' = [op |-> "handle_move", server |-> s, player_id |-> c,
                           row |-> row, col |-> col, success |-> TRUE]
          ELSE /\ Commit(s, [Work(s) EXCEPT
                               !.g = r.g,
                               !.store = set_game_state(get_state_dict(r.g)),
                               !.outbox = <<ErrorTo(c, r.message)>>,
                               !.effects = <<"set_game_state", "send">>])
               /\ last' = [op |-> "handle_move", server |-> s, player_id |-> c,
                           success |-> FALSE]
    /\ UNCHANGED <<listener, connected, force_reset, fanout>>

\* TicTacToeServer.handle_move
handle_move(s, c, row, col) ==
    /\ LET r == make_move(game_state[s], c, row, col)
       IN IF r.success
          THEN /\ Commit(s, broadcast_message(s,
                       [Work(s) EXCEPT
                          !.g = r.g,
                          !.store = set_game_state(get_state_dict(r.g)),
                          !.bus = publish_message(@,
                                     [channel |-> "GAME_MOVE", server_id |-> s,
                                      player_id |-> c, row |-> row, col |-> col,
                                      game_state |-> get_state_dict(r.g)]),
                          !.effects = <<"set_game_state", "publish_message">>]))
               /\ last' = [op |-> "handle_move", server |-> s, player_id |-> c,
                           row |-> row, col |-> col, success |-> TRUE]
          ELSE /\ Commit(s, [Work(s) EXCEPT
                               !.g = r.g,
                               !.outbox = <<ErrorTo(c, r.message)>>,
                               !.effects = <<"send">>])
               /\ last' = [op |-> "handle_move", server |-> s, player_id |-> c,
                           success |-> FALSE]
    /\ UNCHANGED <<listener, connected, force_reset, fanout>>

\* handle_reset without its save_game_state (line 193): the event is
\* published for a snapshot that was never written
handle_reset_no_save(s, c) ==
    /\ LET g == reset(game_state[s])
       IN Commit(s, broadcast_message(s,
              [Work(s) EXCEPT
                 !.g = g,
                 !.bus = publish_message(@,
                            [channel |-> "GAME_RESET", server_id |-> s,
                             player_id |-> c]),
                 !.effects = <<"publish_message">>]))
    /\ last' = [op |-> "handle_reset", server |-> s, player_id |-> c]
    /\ UNCHANGED <<listener, connected, force_reset, fanout>>

\* TicTacToeServer.handle_reset
handle_reset(s, c) ==
    /\ LET g == reset(game_state[s])
       IN Commit(s, broadcast_message(s,
              [Work(s) EXCEPT
                 !.g = g,
                 !.store = set_game_state(get_state_dict(g)),
                 !.bus = publish_message(@,
                            [channel |-> "GAME_RESET", server_id |-> s,
                             player_id |-> c]),
                 !.effects = <<"set_game_state", "publish_message">>]))
    /\ last' = [op |-> "handle_reset", server |-> s, player_id |-> c]
    /\ UNCHANGED <<listener, connected, force_reset, fanout>>

\* TicTacToeServer.handle_message: a join, move or reset message of a
\* connection of s, one of the MaxMessages that Spec lets the clients send
Join(s, c) ==
    /\ Requester(s, c)
    /\ handled < MaxMessages
    /\ handled' = handled + 1
    /\ handle_join(s, c)

Move(s, c, row, col) ==
    /\ Requester(s, c)
    /\ handled < MaxMessages
    /\ handled' = handled + 1
    /\ handle_move(s, c, row, col)

Reset(s, c) ==
    /\ Requester(s, c)
    /\ handled < MaxMessages
    /\ handled' = handled + 1
    /\ handle_reset(s, c)

\* client_handler of connection c ends: its finally clause calls
\* unregister_client, whether c is still registered or broadcast_message has
\* unregistered it already after a failed send
Disconnect(s, c) ==
    /\ s = ServerOf(c)
    /\ SeqHas(clients[s], c) \/ c \in closed
    /\ Commit(s, [unregister_client(s, Work(s), c) EXCEPT !.closed = @ \ {c}])
    /\ last' = [op |-> "unregister_client", server |-> s, player_id |-> c]
    /\ UNCHANGED <<listener, connected, handled, force_reset, fanout>>

\* TicTacToeServer.load_game_state called by the listener thread, up to the
\* point where load_state has run lines 169-173
ListenLoadGameState(s) ==
    LET saved_state == get_game_state
    IN IF force_reset[s]
       THEN /\ game_state' = [game_state EXCEPT ![s] = reset(@)]
            /\ listener' = listener
            /\ store' = set_game_state(get_state_dict(reset(game_state[s])))
            /\ effects' = <<"set_game_state">>
       ELSE IF ~IsNone(saved_state)
       THEN /\ game_state' = [game_state EXCEPT
                                ![s] = load_state_clear(@, saved_state[1])]
            /\ listener' = [listener EXCEPT
                              ![s] = [pc |-> "players", saved_state |-> saved_state[1]]]
            /\ store' = store
            /\ effects' = <<>>
       ELSE /\ game_state' = [game_state EXCEPT ![s] = reset(@)]
            /\ listener' = listener
            /\ store' = set_game_state(get_state_dict(reset(game_state[s])))
            /\ effects' = <<"set_game_state">>

\* the sync handlers without their test of data.get('server_id')
Listen_no_origin_check(s) ==
    /\ listener[s].pc = "idle"
    /\ bus[s] # <<>>
    /\ LET data == Head(bus[s])
       IN /\ bus' = [bus EXCEPT ![s] = Tail(@)]
          /\ last' = [op |-> "listen", server |-> s, channel |-> data.channel,
                      server_id |-> data.server_id]
          /\ IF FALSE
             THEN /\ effects' = <<>>
                  /\ UNCHANGED <<game_state, listener, store>>
             ELSE IF data.channel \in {"PLAYER_JOIN", "GAME_MOVE"}
             THEN /\ game_state' = [game_state EXCEPT
                                      ![s] = load_state_clear(@, data.game_state)]
                  /\ listener' = [listener EXCEPT
                                    ![s] = [pc |-> "players",
                                            saved_state |-> data.game_state]]
                  /\ store' = store
                  /\ effects' = <<>>
             ELSE ListenLoadGameState(s)
    /\ outbox' = <<>>
    /\ UNCHANGED <<clients, connected, handled, closed, force_reset, fanout>>

\* RedisSyncManager._listen_for_messages: the listener thread of s takes its
\* next message and enters handle_player_join_sync, handle_player_leave_sync,
\* handle_game_move_sync or handle_game_reset_sync
Listen(s) ==
    /\ listener[s].pc = "idle"
    /\ bus[s] # <<>>
    /\ LET data == Head(bus[s])
       IN /\ bus' = [bus EXCEPT ![s] = Tail(@)]
          /\ last' = [op |-> "listen", server |-> s, channel |-> data.channel,
                      server_id |-> data.server_id]
          /\ IF data.server_id = s
             THEN /\ effects' = <<>>
                  /\ UNCHANGED <<game_state, listener, store>>
             ELSE IF data.channel \in {"PLAYER_JOIN", "GAME_MOVE"}
             THEN /\ game_state' = [game_state EXCEPT
                                      ![s] = load_state_clear(@, data.game_state)]
                  /\ listener' = [listener EXCEPT
                                    ![s] = [pc |-> "players",
                                            saved_state |-> data.game_state]]
                  /\ store' = store
                  /\ effects' = <<>>
             ELSE ListenLoadGameState(s)
    /\ outbox' = <<>>
    /\ UNCHANGED <<clients, connected, handled, closed, force_reset, fanout>>

\* the listener thread resumes load_state: the loop of lines 176-179 and
\* lines 182-192; then the handler's asyncio.create_task fails and the thread
\* returns to its loop
ListenLoadRest(s) ==
    /\ listener[s].pc = "players"
    /\ game_state' = [game_state EXCEPT
                        ![s] = load_state_rest(
                                  load_state_players(@, listener[s].saved_state),
                                  listener[s].saved_state)]
    /\ listener' = [listener EXCEPT ![s] = [pc |-> "idle"]]
    /\ outbox' = <<>>
    /\ effects' = <<>>
    /\ last' = [op |-> "load_state", server |-> s]
    /\ UNCHANGED <<store, clients, bus, connected, handled, closed, force_reset, fanout>>

\* Spec: three connections send up to MaxMessages messages and leave; every
\* socket stays open until its client_handler ends
Next ==
    \/ \E s \in Servers : \E c \in SpecIds : Connect(s, c)
    \/ \E s \in Servers : \E c \in SpecIds : Join(s, c)
    \/ \E s \in Servers : \E c \in SpecIds : \E m \in SpecMoves : Move(s, c, m[1], m[2])
    \/ \E s \in Servers : \E c \in SpecIds : Reset(s, c)
    \/ \E s \in Servers : \E c \in SpecIds : Disconnect(s, c)
    \/ \E s \in Servers : Listen(s)
    \/ \E s \in Servers : ListenLoadRest(s)

Spec == InitSpec /\ [][Next]_vars

(***************************************************************************)
(* SpecServe: instance A serves two connections for whole games; instance  *)
(* B has no connection and follows through its listener.  Sockets may      *)
(* close before client_handler reaches its finally clause.                 *)
(***************************************************************************)
ServeIds == {1, 3}

\* the cells each connection aims at: connection 1 at row 0, connection 3 at
\* two cells of row 1
ServeMoves(c) == IF c = 1 THEN {<<0, 0>>, <<0, 1>>, <<0, 2>>} ELSE {<<1, 0>>, <<1, 1>>}

\* the connection whose socket closes before its client_handler ends
ServeClosers == {1}

ServeJoin(c) ==
    /\ Requester("A", c)
    /\ handled' = handled
    /\ handle_join("A", c)

ServeMove(c, row, col) ==
    /\ Requester("A", c)
    /\ handled' = handled
    /\ handle_move("A", c, row, col)

NextServe ==
    \/ \E c \in ServeIds : Connect("A", c)
    \/ \E c \in ServeIds : ServeJoin(c)
    \/ \E c \in ServeIds : \E m \in ServeMoves(c) : ServeMove(c, m[1], m[2])
    \/ \E c \in ServeClosers : Close("A", c)
    \/ \E c \in ServeIds : Disconnect("A", c)
    \/ \E s \in Servers : Listen(s)
    \/ \E s \in Servers : ListenLoadRest(s)

SpecServe == InitSpec /\ [][NextServe]_vars

(***************************************************************************)
(* SpecRace: two instances, connections 1 and 3 on A and 2 on B.  A client *)
(* sends join while its instance does not show it as a participant, the    *)
(* clients aim at three cells, and connection 1 is the one that leaves.    *)
(***************************************************************************)
RaceCell(c) == IF c = 1 THEN <<0, 0>> ELSE IF c = 2 THEN <<0, 1>> ELSE <<1, 1>>

RaceLeavers == {1}

RaceJoin(s, c) ==
    /\ Requester(s, c)
    /\ ~DictHas(game_state[s].players, c)
    /\ handled' = handled
    /\ handle_join(s, c)

RaceMove(s, c, row, col) ==
    /\ Requester(s, c)
    /\ handled' = handled
    /\ handle_move(s, c, row, col)

NextRace ==
    \/ \E s \in Servers : \E c \in SpecIds : Connect(s, c)
    \/ \E s \in Servers : \E c \in SpecIds : RaceJoin(s, c)
    \/ \E s \in Servers : \E c \in SpecIds : RaceMove(s, c, RaceCell(c)[1], RaceCell(c)[2])
    \/ \E s \in Servers : \E c \in RaceLeavers : Disconnect(s, c)
    \/ \E s \in Servers : Listen(s)
    \/ \E s \in Servers : ListenLoadRest(s)

SpecRace == InitSpec /\ [][NextRace]_vars

(***************************************************************************)
(* SpecFault: instance A serves three connections that never leave, and    *)
(* two things can go wrong while it handles a move.                        *)
(* Redis may be unreachable when save_game_state is called: redis-py       *)
(* raises from redis_client.set, set_game_state (redis_sync.py:95-100)     *)
(* has no try/except, and the exception reaches the "except Exception" of  *)
(* handle_move (lines 184-186).                                            *)
(* A send of broadcast_message may suspend (a slow client): the loop of    *)
(* lines 241-245 iterates self.clients itself, so when another task has    *)
(* added a connection in the meantime the next step of the iteration       *)
(* raises RuntimeError (dictionary changed size during iteration), which   *)
(* is not a ConnectionClosed and reaches the same except clause.  The      *)
(* model lets the fan-out of a move suspend in its first send, one fan-out *)
(* at a time.                                                              *)
(***************************************************************************)
\* the connections of SpecFault, all of instance A
FaultIds == {1, 3, 4}

\* connection c waits for its handle_move to return
Awaiting(c) == fanout # <<>> /\ fanout[1].player_id = c

\* TicTacToeServer.handle_move while Redis is unreachable
handle_move_redis_error(s, c, row, col) ==
    /\ Requester(s, c)
    /\ ~Awaiting(c)
    /\ LET r == make_move(game_state[s], c, row, col)
       IN IF r.success
          THEN /\ Commit(s, [Work(s) EXCEPT
                               !.g = r.g,
                               !.outbox = <<ErrorTo(c, "Error processing move")>>,
                               !.effects = <<"send">>])
               /\ last' = [op |-> "handle_move", server |-> s, player_id |-> c,
                           row |-> row, col |-> col, success |-> TRUE]
          ELSE /\ Commit(s, [Work(s) EXCEPT
                               !.g = r.g,
                               !.outbox = <<ErrorTo(c, r.message)>>,
                               !.effects = <<"send">>])
               /\ last' = [op |-> "handle_move", server |-> s, player_id |-> c,
                           success |-> FALSE]
    /\ UNCHANGED <<listener, connected, handled, force_reset, fanout>>

\* TicTacToeServer.handle_move up to the first send of broadcast_message,
\* which suspends; keys is self.clients as the iteration found it
handle_move_await(s, c, row, col) ==
    /\ Requester(s, c)
    /\ fanout = <<>>
    /\ Head(clients[s]) \notin closed
    /\ LET r == make_move(game_state[s], c, row, col)
       IN /\ r.success
          /\ Commit(s, [Work(s) EXCEPT
                          !.g = r.g,
                          !.store = set_game_state(get_state_dict(r.g)),
                          !.bus = publish_message(@,
                                     [channel |-> "GAME_MOVE", server_id |-> s,
                                      player_id |-> c, row |-> row, col |-> col,
                                      game_state |-> get_state_dict(r.g)]),
                          !.outbox = <<UpdateTo(Head(clients[s]))>>,
                          !.effects = <<"set_game_state", "publish_message", "send">>])
    /\ fanout' = <<[server |-> s, player_id |-> c, keys |-> clients[s]]>>
    /\ last' = [op |-> "handle_move_await", server |-> s, player_id |-> c,
                row |-> row, col |-> col]
    /\ UNCHANGED <<listener, connected, handled, force_reset>>

\* the suspended send returns and the loop of broadcast_message goes on: with
\* self.clients of another size it raises and handle_move sends its error,
\* otherwise the remaining connections get the update
handle_move_resume(s) ==
    /\ fanout # <<>>
    /\ fanout[1].server = s
    /\ LET keys == fanout[1].keys
           sent == SelectSeq(Tail(keys), LAMBDA x : x \notin closed)
           disconnected_clients == SelectSeq(keys, LAMBDA x : x \in closed)
       IN IF Len(clients[s]) # Len(keys)
          THEN /\ Commit(s, [Work(s) EXCEPT
                               !.outbox = <<ErrorTo(fanout[1].player_id,
                                                    "Error processing move")>>,
                               !.effects = <<"send">>])
               /\ last' = [op |-> "handle_move_resume", server |-> s,
                           player_id |-> fanout[1].player_id, raised |-> TRUE]
          ELSE /\ Commit(s, unregister_disconnected(s,
                               [Work(s) EXCEPT !.outbox = broadcast_game_state(sent),
                                               !.effects = sends(sent)],
                               disconnected_clients))
               /\ last' = [op |-> "handle_move_resume", server |-> s,
                           player_id |-> fanout[1].player_id, raised |-> FALSE]
    /\ fanout' = <<>>
    /\ UNCHANGED <<listener, connected, handled, force_reset>>

FaultJoin(c) ==
    /\ Requester("A", c)
    /\ ~Awaiting(c)
    /\ ~DictHas(game_state["A"].players, c)
    /\ handled' = handled
    /\ handle_join("A", c)

FaultMove(c, row, col) ==
    /\ Requester("A", c)
    /\ ~Awaiting(c)
    /\ handled' = handled
    /\ handle_move("A", c, row, col)

NextFault ==
    \/ \E c \in FaultIds : Connect("A", c)
    \/ \E c \in FaultIds : FaultJoin(c)
    \/ \E c \in FaultIds : FaultMove(c, RaceCell(c)[1], RaceCell(c)[2])
    \/ \E c \in FaultIds : handle_move_redis_error("A", c, RaceCell(c)[1], RaceCell(c)[2])
    \/ \E c \in FaultIds : handle_move_await("A", c, RaceCell(c)[1], RaceCell(c)[2])
    \/ handle_move_resume("A")
    \/ \E s \in Servers : Listen(s)
    \/ \E s \in Servers : ListenLoadRest(s)

SpecFault == InitSpec /\ [][NextFault]_vars

(***************************************************************************)
(* SpecForce: the clients of Spec, with instance B started with            *)
(* --force-reset (websocket_server.py:345-350).  B's constructor resets    *)
(* its GameState and saves it (lines 44-48), which leaves the Redis key    *)
(* with the snapshot of a new game; force_reset stays set afterwards.      *)
(***************************************************************************)
InitForce ==
    /\ game_state = [s \in Servers |-> NewGameState]
    /\ force_reset = [s \in Servers |-> s = "B"]
    /\ InitCommon

SpecForce == InitForce /\ [][Next]_vars

\* TicTacToeServer.handle_player_join_sync, handle_game_move_sync,
\* handle_player_leave_sync and handle_game_reset_sync run to their end with
\* no handler of the event loop in between: the GameState of s afterwards
handle_sync(s, g, data) ==
    IF data.server_id = s
    THEN g
    ELSE IF data.channel \in {"PLAYER_JOIN", "GAME_MOVE"}
    THEN load_state(g, data.game_state)
    ELSE IF force_reset[s]
    THEN reset(g)
    ELSE IF ~IsNone(get_game_state)
    THEN load_state(g, get_game_state[1])
    ELSE reset(g)

\* the same handlers, with the Redis key they read and may write: w holds the
\* GameState of s and the key before, the result holds them afterwards
handle_sync_with_store(s, w, data) ==
    IF data.server_id = s
    THEN w
    ELSE IF data.channel \in {"PLAYER_JOIN", "GAME_MOVE"}
    THEN [w EXCEPT !.g = load_state(@, data.game_state)]
    ELSE IF force_reset[s] \/ IsNone(w.store)
    THEN [g |-> reset(w.g), store |-> set_game_state(get_state_dict(reset(w.g)))]
    ELSE [w EXCEPT !.g = load_state(@, w.store[1])]

\* _listen_for_messages run over the whole backlog q of instance s
RECURSIVE listen_all(_, _, _)
listen_all(s, g, q) ==
    IF q = <<>> THEN g ELSE listen_all(s, handle_sync(s, g, Head(q)), Tail(q))

(***************************************************************************)
(* Vocabulary of the claims, stated on the board itself                    *)
(***************************************************************************)
\* the eight lines of the grid, each a set of three cells
Lines ==
    {{<<r, c>> : c \in Idx} : r \in Idx}
    \cup {{<<r, c>> : r \in Idx} : c \in Idx}
    \cup {{<<i, i>> : i \in Idx}, {<<i, 2 - i>> : i \in Idx}}

\* some line holds three times the mark m
LineOf(board, m) == \E l \in Lines : \A cell \in l : board[cell[1]][cell[2]] = m

HasLine(board) == LineOf(board, "X") \/ LineOf(board, "O")

BoardFull(board) == \A cell \in AllCells : board[cell[1]][cell[2]] # ""

Terminal(board) == HasLine(board) \/ BoardFull(board)

\* the board held in the Redis key, as GameState.load_state reads it (line 169)
StoreBoard == store[1].board

SucceededMove(l) == l.op = "make_move" /\ l.success

(***************************************************************************)
(* C1  After a move has produced a win, no later make_move succeeds until  *)
(* reset() has run, whatever add_player / remove_player / make_move calls  *)
(* come in between.  winner is set by a winning move only and, as long as  *)
(* no move succeeds, cleared by reset() only, so "winner is set" is "a win *)
(* happened and no reset since".                                           *)
(***************************************************************************)
C1_NoMoveAfterWin ==
    [][G.winner # None => ~SucceededMove(last')]_vars

(***************************************************************************)
(* C2  status is IN_PROGRESS if and only if exactly two participants are   *)
(* registered.                                                             *)
(***************************************************************************)
C2_InProgressIffTwo ==
    (G.status = IN_PROGRESS) <=> (Len(G.players) = 2 /\ G.player_count = 2)

\* C2 as amended: exactly two participants are registered if and only if
\* status is IN_PROGRESS or FINISHED (a finished game keeps both of them)
C2_TwoIffStartedOrFinished ==
    (G.status \in {IN_PROGRESS, FINISHED}) <=> (Len(G.players) = 2 /\ G.player_count = 2)

C2_Witness ==
    /\ G.status = FINISHED
    /\ Len(G.players) = 2
    /\ SucceededMove(last)

(***************************************************************************)
(* C3  status is FINISHED if and only if the board is terminal (a line of  *)
(* three identical marks, or no empty cell).                               *)
(***************************************************************************)
C3_FinishedIffTerminal ==
    (G.status = FINISHED) <=> Terminal(G.board)

\* C3 as amended: FINISHED implies a terminal board (remove_player leaves a
\* terminal board behind with status WAITING)
C3_FinishedImpliesTerminal ==
    (G.status = FINISHED) => Terminal(G.board)

C3_Witness ==
    /\ G.status = FINISHED
    /\ LineOf(G.board, "X")
    /\ ~BoardFull(G.board)
    /\ last.op = "make_move"

(***************************************************************************)
(* C4  No instance ever has more than two registered participants in       *)
(* memory, and neither has the stored snapshot, under every interleaving   *)
(* of Join, Disconnect, Reset and Sync Event processing on two instances.  *)
(***************************************************************************)
C4_AtMostTwoParticipants ==
    /\ \A s \in Servers : Len(game_state[s].players) <= 2
    /\ \A i \in 1 .. Len(store) : Len(store[i].players) <= 2

(***************************************************************************)
(* C5  In each instance a marked cell keeps its mark as long as no reset   *)
(* is applied on that instance: Join, Move, Disconnect and incoming join,  *)
(* move and leave events leave marked cells as they are.                   *)
(***************************************************************************)
ResetApplied(s, l) ==
    /\ l.op \in {"handle_reset", "listen"}
    /\ l.server = s
    /\ l.op = "listen" => l.channel = "GAME_RESET"

C5_MarkedCellsKept ==
    [][\A s \in Servers :
         ~ResetApplied(s, last')
         => \A cell \in AllCells :
              game_state[s].board[cell[1]][cell[2]] # ""
              => game_state'[s].board[cell[1]][cell[2]]
                   = game_state[s].board[cell[1]][cell[2]]]_vars

(***************************************************************************)
(* C6  A Move that make_move rejects leaves every instance's GameState,    *)
(* the stored snapshot, the bus and the connection registry as they were,  *)
(* and the only message sent is one error, to the requester.               *)
(***************************************************************************)
RuleViolations ==
    {"Game is not in progress", "Player not in game", "Not your turn",
     "Invalid coordinates", "Cell is already occupied"}

RejectedMove(l) == l.op = "handle_move" /\ ~l.success

C7_RoundTrip ==
    /\ load_state(G, get_state_dict(G)) = G
    /\ load_state(NewGameState, get_state_dict(G)) = G

\* the winner X has left and a newcomer joined the remaining O
C7_Witness ==
    /\ last.op = "load_state"
    /\ G.winner = PlayerX
    /\ Len(G.players) = 2
    /\ G.players[1].val = PlayerO

(***************************************************************************)
(* C8  add_player with an id that is already registered returns that id's  *)
(* mark and changes nothing in the object.                                 *)
(***************************************************************************)
C8_AddPlayerIdempotent ==
    [][(last'.op = "add_player" /\ DictHas(G.players, last'.player_id))
         => /\ last'.ret = DictGet(G.players, last'.player_id)
            /\ game_state' = game_state]_vars

\* a first-time add_player returns X only when it leaves one participant, so
\* this is the repeated call of the X participant of a pair
C8_Witness ==
    /\ last.op = "add_player"
    /\ last.ret = PlayerX
    /\ G.player_count = 2
    /\ DictHas(G.players, last.player_id)

(***************************************************************************)
(* C9  From the empty session the first add_player returns X and leaves    *)
(* status WAITING; the next add_player with another id returns O, sets     *)
(* status IN_PROGRESS, and current_turn is X.                              *)
(***************************************************************************)
AfterFirstJoin(g, q) ==
    g = [NewGameState EXCEPT !.players = <<[id |-> q, val |-> PlayerX]>>,
                             !.player_count = 1]

C9_JoinScenario ==
    [][last'.op = "add_player"
         => /\ G = NewGameState
                 => /\ last'.ret = PlayerX
                    /\ AfterFirstJoin(G', last'.player_id)
                    /\ G'.status = WAITING
            /\ \A q \in PlayerIds \ {last'.player_id} :
                 AfterFirstJoin(G, q)
                 => /\ last'.ret = PlayerO
                    /\ G'.status = IN_PROGRESS
                    /\ G'.current_turn = PlayerX
                    /\ G'.players = Append(G.players,
                                           [id |-> last'.player_id, val |-> PlayerO])]_vars

C9_Witness ==
    /\ last.op = "add_player"
    /\ last.ret = PlayerO
    /\ G.status = IN_PROGRESS
    /\ G.current_turn = PlayerX
    /\ G.board = EmptyBoard
    /\ G.winner = None

(***************************************************************************)
(* C10  A successful make_move writes the mover's mark in the target cell  *)
(* and nowhere else; then a line of three gives FINISHED with the mover as *)
(* winner (also on a full board), else a full board gives FINISHED with no *)
(* winner, else status stays IN_PROGRESS and current_turn flips.           *)
(***************************************************************************)
C10_MoveOutcome ==
    [][SucceededMove(last')
         => LET mover == DictGet(G.players, last'.player_id)
                b == [G.board EXCEPT ![last'.row][last'.col] = PlayerValue(mover)]
            IN /\ G.board[last'.row][last'.col] = ""
               /\ G'.board = b
               /\ G'.players = G.players
               /\ IF HasLine(b)
                  THEN G'.status = FINISHED /\ G'.winner = mover
                  ELSE IF BoardFull(b)
                  THEN G'.status = FINISHED /\ G'.winner = None
                  ELSE /\ G'.status = IN_PROGRESS
                       /\ G'.winner = G.winner
                       /\ G'.current_turn # mover
                       /\ G'.current_turn \in {PlayerX, PlayerO}]_vars

\* the ninth move completes a line
C10_Witness ==
    /\ SucceededMove(last)
    /\ BoardFull(G.board)
    /\ G.status = FINISHED
    /\ G.winner = PlayerX

(***************************************************************************)
(* C11  When a successful Move ends the game (the instance's status is     *)
(* FINISHED after handle_move), the messages the handler sends to the      *)
(* local connections include, right after an update, a win message (when   *)
(* there is a winner) or a draw message (when there is none).              *)
(***************************************************************************)
GameEndingMove(s, l) == l.op = "handle_move" /\ l.success /\ l.server = s

C11_WinOrDrawSent ==
    [][\A s \in Servers :
         (GameEndingMove(s, last') /\ game_state'[s].status = FINISHED)
         => \E i \in 2 .. Len(outbox') :
              /\ outbox'[i - 1].type = "update"
              /\ outbox'[i].type
                   = IF game_state'[s].winner # None THEN "win" ELSE "draw"]_vars

(***************************************************************************)
(* C12  Two instances have each accepted a move before seeing the other's  *)
(* move event (both events are still in the peer's backlog, and the        *)
(* backlogs hold move events only).  Then the Redis key holds one of the   *)
(* two published snapshots, and when both listeners have worked off their  *)
(* backlog with no further command, the board of each instance is the      *)
(* board held in Redis.                                                    *)
(***************************************************************************)
Peer(s) == IF s = "A" THEN "B" ELSE "A"

\* the move events of instance s still waiting in the backlog of its peer
PendingMoves(s) ==
    {bus[Peer(s)][i] : i \in {j \in 1 .. Len(bus[Peer(s)]) :
                                 bus[Peer(s)][j].server_id = s}}

\* the snapshot of event d was taken without the move of event e
Unseen(d, e) == d.game_state.board[e.row][e.col] = ""

CrossedMoves ==
    /\ last.op = "handle_move" /\ last.success
    /\ \A s \in Servers :
         /\ listener[s].pc = "idle"
         /\ \A i \in 1 .. Len(bus[s]) : bus[s][i].channel = "GAME_MOVE"
         /\ Len(game_state[s].players) = 2
    /\ \E d \in PendingMoves("A") : \E e \in PendingMoves("B") :
         Unseen(d, e) /\ Unseen(e, d)

C12_CrossedMovesConverge ==
    CrossedMoves
    => /\ \E s \in Servers : \E i \in 1 .. Len(bus[s]) :
            store = <<bus[s][i].game_state>>
       /\ \A s \in Servers :
            listen_all(s, game_state[s], bus[s]).board = StoreBoard

(***************************************************************************)
(* C13  When the listener of an instance has finished handling a join,     *)
(* move, reset or leave event of its peer (load_state has run to its end), *)
(* an update message is sent to every connection registered on that        *)
(* instance.                                                               *)
(***************************************************************************)
SyncEventHandled(s, l) == l.op = "load_state" /\ l.server = s

C13_SyncEventBroadcast ==
    [][\A s \in Servers :
         SyncEventHandled(s, last')
         => outbox' = broadcast_game_state(clients'[s])]_vars

(***************************************************************************)
(* C14  A Join rejected because the game is full sends one error to the    *)
(* requester and nothing else, publishes nothing, leaves the Redis key as  *)
(* it is, and leaves the GameState of the instance exactly as it was       *)
(* before the Join.                                                        *)
(***************************************************************************)
RejectedJoin(l) == l.op = "handle_join" /\ l.ret = None

C14_RejectedJoinChangesNothing ==
    [][RejectedJoin(last')
         => /\ outbox' = <<ErrorTo(last'.player_id, "Game is full")>>
            /\ bus' = bus
            /\ store' = store
            /\ game_state' = game_state]_vars

\* C14 as amended: the GameState of the instance is left as the snapshot
\* that handle_join reloaded from the Redis key (no participant added), the
\* other instance, the key, the bus and the registry are untouched, and the
\* only message is the error to the requester
C14_RejectedJoinLeavesStoredSnapshot ==
    [][RejectedJoin(last')
         => LET s == last'.server
                d == get_state_dict(game_state'[s])
            IN /\ outbox' = <<ErrorTo(last'.player_id, "Game is full")>>
               /\ bus' = bus
               /\ store' = store
               /\ clients' = clients
               /\ game_state'[Peer(s)] = game_state[Peer(s)]
               /\ d.board = store[1].board
               /\ d.current_turn = store[1].current_turn
               /\ d.status = store[1].status
               /\ d.winner = store[1].winner
               /\ d.players = store[1].players
               /\ ~DictHas(game_state'[s].players, last'.player_id)]_vars

\* a Join is rejected on an instance that has not yet handled the events
\* of the joins that filled the game
C14_Witness ==
    /\ RejectedJoin(last)
    /\ last.server = "B"
    /\ bus["B"] # <<>>
    /\ outbox = <<ErrorTo(2, "Game is full")>>
    /\ Len(game_state["B"].players) = 2

(***************************************************************************)
(* C15  An event whose server_id is the receiving instance's own id is     *)
(* ignored on every channel: the GameState of every instance, the Redis    *)
(* key, the registry and the listener are unchanged and nothing is sent.   *)
(***************************************************************************)
EchoTaken(l) == l.op = "listen" /\ l.server_id = l.server

C15_EchoIgnored ==
    [][EchoTaken(last')
         => /\ game_state' = game_state
            /\ store' = store
            /\ clients' = clients
            /\ listener' = listener
            /\ outbox' = <<>>]_vars

\* an instance takes the echo of its own reset while the Redis key, written
\* by a later join, no longer matches its memory
C15_Witness ==
    /\ EchoTaken(last)
    /\ last.channel = "GAME_RESET"
    /\ store # <<get_state_dict(game_state[last.server])>>

(***************************************************************************)
(* C16  Within one instance no command handler (Join, Move, Reset,         *)
(* Disconnect) runs while the handling of an incoming event is under way:  *)
(* a handler never starts between the two halves of the listener's         *)
(* load_state.                                                             *)
(***************************************************************************)
CommandHandled(s, l) ==
    /\ l.op \in {"handle_join", "handle_move", "handle_reset", "unregister_client"}
    /\ l.server = s

C16_SingleSerializationPoint ==
    [][\A s \in Servers :
         CommandHandled(s, last') => listener[s].pc = "idle"]_vars

(***************************************************************************)
(* C17  A handler of instance s broadcasts while sockets of registered     *)
(* connections are closed.  Each such connection is unregistered, its      *)
(* participant removed, the state saved, a PLAYER_LEAVE event published    *)
(* for it and the state broadcast again; every connection left registered  *)
(* gets the broadcast and each of the repeated ones, and nobody gets an    *)
(* error.                                                                  *)
(***************************************************************************)
BroadcastStep(s, l) ==
    /\ l.op \in {"handle_join", "handle_move", "handle_reset", "unregister_client"}
    /\ l.server = s
    /\ l.op = "handle_join" => l.ret # None
    /\ l.op = "handle_move" => l.success

C17_FailedSendIsDisconnect ==
    [][\A s \in Servers :
         BroadcastStep(s, last')
         => LET failed == {c \in closed :
                             /\ SeqHas(clients[s], c)
                             /\ ~(last'.op = "unregister_client"
                                    /\ last'.player_id = c)}
            IN failed # {}
               => /\ \A c \in failed :
                       /\ ~SeqHas(clients'[s], c)
                       /\ ~DictHas(game_state'[s].players, c)
                       /\ \E i \in Len(bus[s]) + 1 .. Len(bus'[s]) :
                             bus'[s][i] = [channel |-> "PLAYER_LEAVE",
                                           server_id |-> s, player_id |-> c]
                  /\ store' = <<get_state_dict(game_state'[s])>>
                  /\ \A i \in 1 .. Len(clients'[s]) :
                       Cardinality({j \in 1 .. Len(outbox') :
                                      outbox'[j] = UpdateTo(clients'[s][i])})
                         = 1 + Cardinality(failed)
                  /\ \A j \in 1 .. Len(outbox') : outbox'[j].type # "error"]_vars

\* X moves while the socket of the O participant is closed: O is removed,
\* the game goes back to WAITING and X gets the update twice
C17_Witness ==
    /\ last.op = "handle_move" /\ last.success
    /\ last.player_id = 3
    /\ clients["A"] = <<3>>
    /\ outbox = <<UpdateTo(3), UpdateTo(3)>>
    /\ G.status = WAITING
    /\ closed = {1}

(***************************************************************************)
(* C18  unregister_client of a connection whose id is a participant of the *)
(* instance's GameState deletes that participant only, sets status to      *)
(* WAITING when fewer than two participants remain and leaves it otherwise,*)
(* leaves board, current_turn, winner and the other participant's mark as  *)
(* they are, saves the resulting snapshot to the Redis key and publishes   *)
(* one PLAYER_LEAVE event.                                                 *)
(***************************************************************************)
ParticipantLeft(s, l, g) ==
    l.op = "unregister_client" /\ l.server = s /\ DictHas(g.players, l.player_id)

C18_ParticipantDisconnect ==
    [][\A s \in Servers :
         ParticipantLeft(s, last', game_state[s])
         => LET c == last'.player_id
                g == game_state[s]
                h == game_state'[s]
            IN /\ h.players = SelectSeq(g.players, LAMBDA e : e.id # c)
               /\ h.board = g.board
               /\ h.current_turn = g.current_turn
               /\ h.winner = g.winner
               /\ h.status = IF Len(h.players) < 2 THEN WAITING ELSE g.status
               /\ store' = <<get_state_dict(h)>>
               /\ bus' = [t \in Servers |->
                            Append(bus[t], [channel |-> "PLAYER_LEAVE",
                                            server_id |-> s, player_id |-> c])]]_vars

(***************************************************************************)
(* C19  unregister_client of a connection whose id is not a participant of *)
(* the instance's GameState changes no GameState, leaves the content of    *)
(* the Redis key as it is and publishes nothing.                           *)
(***************************************************************************)
SpectatorLeft(s, l, g) ==
    l.op = "unregister_client" /\ l.server = s /\ ~DictHas(g.players, l.player_id)

C19_SpectatorDisconnect ==
    [][\A s \in Servers :
         SpectatorLeft(s, last', game_state[s])
         => /\ game_state' = game_state
            /\ store' = store
            /\ bus' = bus]_vars

(***************************************************************************)
(* C20  A GAME_RESET event carries the publisher's snapshot, and when the  *)
(* listener of the peer has handled it the peer's GameState is the initial *)
(* one (empty board, no participants, no winner, WAITING), whatever the    *)
(* Redis key holds by then.                                                *)
(***************************************************************************)
PeerResetTaken(s, l) ==
    l.op = "listen" /\ l.server = s /\ l.channel = "GAME_RESET" /\ l.server_id # s

C20_ResetEventRestoresEmbedded ==
    [][\A s \in Servers :
         /\ PeerResetTaken(s, last') => "game_state" \in DOMAIN Head(bus[s])
         /\ (PeerResetTaken(s, last) /\ SyncEventHandled(s, last'))
            => game_state'[s] = NewGameState]_vars

(***************************************************************************)
(* C21  handle_join decides on the snapshot in the Redis key, not on the   *)
(* instance's memory: when the key holds two participants other than the   *)
(* requester, the join is rejected as full, whatever the instance's        *)
(* GameState held before.                                                  *)
(***************************************************************************)
OthersInStore(c) ==
    {i \in 1 .. Len(store[1].players) : store[1].players[i].id # c}

C21_JoinDecidesOnStore ==
    [][(last'.op = "handle_join" /\ Cardinality(OthersInStore(last'.player_id)) >= 2)
         => /\ last'.ret = None
            /\ outbox' = <<ErrorTo(last'.player_id, "Game is full")>>]_vars

\* instance B rejects a join while the two join events of A are still in
\* its backlog: its memory had no participant when the join arrived
C21_Witness ==
    /\ last.op = "handle_join" /\ last.ret = None /\ last.server = "B"
    /\ Len(bus["B"]) = 2
    /\ \A i \in 1 .. 2 : bus["B"][i].channel = "PLAYER_JOIN" /\ bus["B"][i].server_id = "A"
    /\ listener["B"].pc = "idle"

(***************************************************************************)
(* C26  Whenever two participants are registered in a GameState, one holds *)
(* X and the other O.                                                      *)
(***************************************************************************)
C26_DistinctMarks ==
    Len(G.players) = 2 => G.players[1].val # G.players[2].val

(***************************************************************************)
(* C27  Whenever status is IN_PROGRESS some participant holds the mark of  *)
(* current_turn and some cell is empty, so that a make_move of a           *)
(* participant succeeds.                                                   *)
(***************************************************************************)
C27_InProgressCanAdvance ==
    G.status = IN_PROGRESS
    => /\ \E i \in 1 .. Len(G.players) : G.players[i].val = G.current_turn
       /\ \E cell \in AllCells : G.board[cell[1]][cell[2]] = ""
       /\ \E i \in 1 .. Len(G.players) : \E cell \in AllCells :
             make_move(G, G.players[i].id, cell[1], cell[2]).success

(***************************************************************************)
(* C22  A successful handle_join, handle_move, handle_reset or             *)
(* unregister_client calls set_game_state with the snapshot of the changed *)
(* GameState, then publish_message, then the websocket sends: every        *)
(* publish_message comes right after a set_game_state, no send comes       *)
(* before the first publish_message, and whenever a step publishes an      *)
(* event the Redis key holds the snapshot of the publisher's GameState.    *)
(***************************************************************************)
Published == \E t \in Servers : Len(bus'[t]) > Len(bus[t])

C22_SaveThenPublishThenBroadcast ==
    [][/\ \A s \in Servers :
             BroadcastStep(s, last')
             => /\ Len(effects') >= 2
                /\ effects'[1] = "set_game_state"
                /\ \A i \in 1 .. Len(effects') :
                     /\ effects'[i] = "publish_message"
                          => i > 1 /\ effects'[i - 1] = "set_game_state"
                     /\ effects'[i] = "set_game_state"
                          => i < Len(effects') /\ effects'[i + 1] = "publish_message"
                     /\ effects'[i] = "send" => i > 2
                /\ Published
       /\ Published
             => /\ effects' # <<>> /\ effects'[1] = "set_game_state"
                /\ store' = set_game_state(get_state_dict(game_state'[last'.server]))
                /\ \A t \in Servers : \A i \in Len(bus[t]) + 1 .. Len(bus'[t]) :
                     bus'[t][i].channel \in {"PLAYER_JOIN", "GAME_MOVE"}
                       => bus'[t][i].game_state = store'[1]]_vars

\* a move saved, published and then sent to the two connections of A
C22_Witness ==
    /\ last.op = "handle_move" /\ last.success /\ last.server = "A"
    /\ effects = <<"set_game_state", "publish_message", "send", "send">>
    /\ store[1].board[1][1] # ""

(***************************************************************************)
(* C28  The listener thread never writes the Redis key: handling an event  *)
(* of another instance leaves the key as it was, whether or not the        *)
(* instance was started with --force-reset.                                *)
(***************************************************************************)
C28_SyncEventNeverWrites ==
    [][last'.op \in {"listen", "load_state"} => store' = store]_vars

(***************************************************************************)
(* C25  When the listener thread of an instance takes an event of another  *)
(* instance, handling that event a second time right after the first       *)
(* (no handler and no other event in between) leaves the instance's        *)
(* GameState and the Redis key as the first handling left them.            *)
(***************************************************************************)
C25_DuplicateEventIdempotent ==
    [][\A s \in Servers :
         (last'.op = "listen" /\ last'.server = s /\ last'.server_id # s)
         => LET data == Head(bus[s])
                once == handle_sync_with_store(s, [g |-> game_state[s], store |-> store],
                                               data)
            IN handle_sync_with_store(s, once, data) = once]_vars

\* B takes the PLAYER_JOIN event of A's second participant while its own
\* GameState still holds no participant: the first handling changes it
C25_Witness ==
    /\ last.op = "listen" /\ last.server = "B" /\ last.server_id = "A"
    /\ last.channel = "PLAYER_JOIN"
    /\ listener["B"].pc = "players"
    /\ Len(listener["B"].saved_state.players) = 2
    /\ game_state["B"].status = WAITING

(***************************************************************************)
(* C29  The work of unregister_client (remove_player, save, PLAYER_LEAVE)  *)
(* is done at most once per connection: a step publishes at most one       *)
(* PLAYER_LEAVE for a connection, does so only for a connection that is    *)
(* registered before the step and not after it, a connection once          *)
(* unregistered is never registered again, and the call of client_handler's*)
(* finally clause for a connection that broadcast_message has already      *)
(* unregistered changes and sends nothing.                                 *)
(***************************************************************************)
LeavesPublished(c) ==
    {i \in Len(bus[ServerOf(c)]) + 1 .. Len(bus'[ServerOf(c)]) :
        /\ bus'[ServerOf(c)][i].channel = "PLAYER_LEAVE"
        /\ bus'[ServerOf(c)][i].player_id = c}

C29_DisconnectAtMostOnce ==
    [][\A c \in SpecIds :
         LET s == ServerOf(c) IN
         /\ Cardinality(LeavesPublished(c)) <= 1
         /\ LeavesPublished(c) # {}
              => SeqHas(clients[s], c) /\ ~SeqHas(clients'[s], c)
         /\ (c \in connected /\ ~SeqHas(clients[s], c)) => ~SeqHas(clients'[s], c)
         /\ (last'.op = "unregister_client" /\ last'.player_id = c
                /\ ~SeqHas(clients[s], c))
              => /\ UNCHANGED <<game_state, store, bus, clients>>
                 /\ outbox' = <<>> /\ effects' = <<>>]_vars

\* client_handler of connection 1 ends after a broadcast to its closed socket
\* had unregistered it: nothing is saved, published or sent
C29_Witness ==
    /\ last.op = "unregister_client" /\ last.player_id = 1
    /\ effects = <<>>
    /\ clients["A"] = <<3>>
    /\ 1 \in connected /\ 1 \notin closed

(***************************************************************************)
(* C23  broadcast_message sends to every connection that was registered    *)
(* when it started: when the suspended send of a fan-out returns, the      *)
(* connections after the first one in the clients dict of that moment get  *)
(* the update and no exception ends the loop, whatever other tasks have    *)
(* registered in the meantime.                                             *)
(***************************************************************************)
C23_BroadcastToSnapshot ==
    [][\A s \in Servers :
         (last'.op = "handle_move_resume" /\ last'.server = s)
         => /\ ~last'.raised
            /\ outbox' = broadcast_game_state(Tail(fanout[1].keys))]_vars

(***************************************************************************)
(* C24  When handle_move answers its requester with an error, the          *)
(* instance's GameState is what it was before the move, also when Redis    *)
(* is unreachable.                                                         *)
(***************************************************************************)
C24_ErrorReplyMeansNoChange ==
    [][\A s \in Servers :
         (/\ last'.op = "handle_move" /\ last'.server = s
          /\ \E i \in 1 .. Len(outbox') :
                outbox'[i].type = "error" /\ outbox'[i].to = last'.player_id)
         => game_state'[s] = game_state[s]]_vars

====
